---- MODULE Spec2Model ----
(***************************************************************************)
(* Model of tunel.py: GameEngine, the brick-tunnel renderer.               *)
(*                                                                         *)
(* Numbers.  The program computes in Python floats.  Here a frame          *)
(* coordinate is an integer count of 1/Unit pixel, the shrink factor is an *)
(* integer count of hundredths (0.92 is 92, the step 0.02 is 2), and a     *)
(* product is rounded to the nearest 1/Unit pixel.  A canvas coordinate is *)
(* a count of 1/(Unit*Sub) pixel, which makes edge/16 and half of it exact.*)
(***************************************************************************)
EXTENDS Integers, Sequences, FiniteSets

VARIABLES
    depth_layers,   \* self.depth_layers
    scale,          \* self.scale, in hundredths
    winfo_width,    \* what canvas.winfo_width() returns
    winfo_height,   \* what canvas.winfo_height() returns
    frames,         \* the list the last redraws() got from _frames()
    canvas,         \* the items on the canvas, in creation order
    downs           \* history: "-" presses since construction while no "+"
                    \* was pressed; -1 once not tracked any more

vars == <<depth_layers, scale, winfo_width, winfo_height, frames, canvas,
          downs>>

----------------------------------------------------------------------------
(* Bounds of the model *)

\* how many of the surface sizes of SizeAt the canvas host may report
MaxSizes == 5
\* how many "-" presses the history variable downs counts
MaxDowns == 14

----------------------------------------------------------------------------
(* Number representation *)

Unit == 1000
Sub == 32

Abs(x) == IF x < 0 THEN -x ELSE x
Min2(a, b) == IF a < b THEN a ELSE b
Max2(a, b) == IF a > b THEN a ELSE b

\* d * (s/100), rounded to the nearest unit, ties away from zero
MulScale(d, s) ==
    IF d < 0 THEN -((50 - d * s) \div 100) ELSE (d * s + 50) \div 100

\* Python int(): truncation toward zero to whole pixels, of a canvas coordinate
IntPx(v) ==
    IF v < 0 THEN -(((-v) \div (Unit * Sub)) * (Unit * Sub))
    ELSE (v \div (Unit * Sub)) * (Unit * Sub)

----------------------------------------------------------------------------
(* Program constants *)

Margin == 16
DefaultDepth == 70
DefaultScale == 92
MinDepth == 10
MaxDepth == 200
MinScale == 80
MaxScale == 97
DepthStep == 5
ScaleStep == 2
FallbackWidth == 800
FallbackHeight == 600
MinFrame == 2
MinBand == 50
Segments == 16

\* The surface sizes the canvas host reports: an ordinary one, the 1x1 of a
\* canvas not yet mapped, a width of 0, a width of 2*margin, a height of 0,
\* a width below 2*margin, and larger ordinary ones.
SizeAt(i) ==
    CASE i = 1 -> <<120, 90>>
      [] i = 2 -> <<1, 1>>
      [] i = 3 -> <<0, 90>>
      [] i = 4 -> <<32, 90>>
      [] i = 5 -> <<90, 0>>
      [] i = 6 -> <<20, 90>>
      [] OTHER -> <<80 + 10 * i, 50 + 7 * i>>

Sizes == {SizeAt(i) : i \in 1..MaxSizes}

----------------------------------------------------------------------------
(* _frames *)

Rect(x1, y1, x2, y2) == [x1 |-> x1, y1 |-> y1, x2 |-> x2, y2 |-> y2]

\* Shrink with the centre forgotten: contraction toward the origin
ShrinkTowardOrigin(r, cx, cy, s) ==
    [x1 |-> MulScale(r.x1, s), y1 |-> MulScale(r.y1, s),
     x2 |-> MulScale(r.x2, s), y2 |-> MulScale(r.y2, s)]

\* one pass of the loop body after the append: contract toward (cx, cy)
Shrink(r, cx, cy, s) ==
    Rect(cx + MulScale(r.x1 - cx, s), cy + MulScale(r.y1 - cy, s),
         cx + MulScale(r.x2 - cx, s), cy + MulScale(r.y2 - cy, s))

\* the break test
TooSmall(r) ==
    \/ Abs(r.x2 - r.x1) < MinFrame * Unit
    \/ Abs(r.y2 - r.y1) < MinFrame * Unit

\* FramesLoop with one pass too many
RECURSIVE FramesLoopOneMore(_, _, _, _, _, _)
FramesLoopOneMore(depth, r, cx, cy, s, acc) ==
    IF Len(acc) > depth THEN acc
    ELSE LET nr == Shrink(r, cx, cy, s)
         IN  IF TooSmall(nr) THEN Append(acc, r)
             ELSE FramesLoopOneMore(depth, nr, cx, cy, s, Append(acc, r))

\* the for loop; Len(acc) is the number of passes made so far
RECURSIVE FramesLoop(_, _, _, _, _, _)
FramesLoop(depth, r, cx, cy, s, acc) ==
    IF Len(acc) >= depth THEN acc
    ELSE LET nr == Shrink(r, cx, cy, s)
         IN  IF TooSmall(nr) THEN Append(acc, r)
             ELSE FramesLoop(depth, nr, cx, cy, s, Append(acc, r))

\* _frames(w, h) with self.depth_layers = depth and self.scale = s
_frames(w, h, depth, s) ==
    FramesLoop(depth,
               Rect(Margin * Unit, Margin * Unit,
                    (w - Margin) * Unit, (h - Margin) * Unit),
               (w * Unit) \div 2, (h * Unit) \div 2, s, <<>>)

----------------------------------------------------------------------------
(* redraws *)

\* a frame coordinate as a canvas coordinate
C(x) == x * Sub

\* the test of lines 84 and 96: x2 - x1 > 50.0 and y2 - y1 > 50.0
Big(r) == r.x2 - r.x1 > MinBand * Unit /\ r.y2 - r.y1 > MinBand * Unit

RectItem(r, i) ==
    [kind |-> "rectangle", x1 |-> C(r.x1), y1 |-> C(r.y1),
     x2 |-> C(r.x2), y2 |-> C(r.y2), frame |-> i]

\* Outlines without the size test
OutlinesOfAll(fr) ==
    [k \in 1..Len(fr) |-> RectItem(fr[k], k - 1)]

\* first loop (lines 82-86): one outline per frame that passes the test,
\* in the order of the frames; a frame is named by its Python index
Outlines(fr) ==
    LET idx == SelectSeq([i \in 1..Len(fr) |-> i - 1],
                         LAMBDA i : Big(fr[i + 1]))
    IN  [k \in 1..Len(idx) |-> RectItem(fr[idx[k] + 1], idx[k])]

\* (x2 - x1) / 16 of an edge of length e, in canvas units
Seg(e) == (e * Sub) \div Segments

\* a + int(seg * float(nn)) + seg * (counter * 0.5), in canvas units
Sample(a, e, nn, counter) ==
    C(a) + IntPx(Seg(e) * nn) + (Seg(e) * counter) \div 2

LineItem(xa, ya, xb, yb, i, nn, side) ==
    [kind |-> "line", x1 |-> xa, y1 |-> ya, x2 |-> xb, y2 |-> yb,
     band |-> i, nn |-> nn, side |-> side]

\* the four create_line calls of one nn, in the order of lines 104-107
BandLine(r, n, i, nn, side, counter) ==
    LET xa == Sample(r.x1, r.x2 - r.x1, nn, counter)
        xb == Sample(n.x1, n.x2 - n.x1, nn, counter)
        ya == Sample(r.y1, r.y2 - r.y1, nn, counter)
        yb == Sample(n.y1, n.y2 - n.y1, nn, counter)
    IN  CASE side = 0 -> LineItem(xa, C(r.y1), xb, C(n.y1), i, nn, "top")
          [] side = 1 -> LineItem(xa, C(r.y2), xb, C(n.y2), i, nn, "bottom")
          [] side = 2 -> LineItem(C(r.x1), ya, C(n.x1), yb, i, nn, "left")
          [] OTHER    -> LineItem(C(r.x2), ya, C(n.x2), yb, i, nn, "right")

\* BandDrawn that also tests the far frame
BandDrawnBoth(r, n) == Big(r) /\ Big(n)

\* whether the pair (r, n) gets its band: the test of line 96
BandDrawn(r, n) == Big(r)

\* Phase without the reduction modulo 2
PhaseNotReduced(counter) == counter

\* "counter = counter % 2" at the top of the loop body
Phase(counter) == counter % 2

\* the values counter has in the passes 0 .. n-1 of the second loop, after
\* line 93; the loop starts from counter = 0 and ends each pass with
\* counter = counter + 1, whether or not the band was drawn
RECURSIVE CounterLoop(_, _, _)
CounterLoop(n, counter, acc) ==
    IF Len(acc) >= n THEN acc
    ELSE LET c == Phase(counter)
         IN  CounterLoop(n, c + 1, Append(acc, c))

\* second loop (lines 92-110): for every pair (i, i+1) that passes the test,
\* in order, the 4 lines of each nn in range(0,16)
Joints(fr) ==
    LET idx == SelectSeq([i \in 1..(Len(fr) - 1) |-> i - 1],
                         LAMBDA i : BandDrawn(fr[i + 1], fr[i + 2]))
        cnt == CounterLoop(Len(fr) - 1, 0, <<>>)
        per == 4 * Segments
    IN  [j \in 1..(per * Len(idx)) |->
            LET i == idx[((j - 1) \div per) + 1]
                k == (j - 1) % per
            IN  BandLine(fr[i + 1], fr[i + 2], i, k \div 4, k % 4, cnt[i + 1])]

\* what one redraw creates on the cleared canvas
Drawn(fr) ==
    IF Len(fr) < 2 THEN <<>>
    ELSE Outlines(fr) \o Joints(fr)

\* DeleteAll that deletes nothing
DeleteNothing(items) == items

\* c.delete("all")
DeleteAll(items) == <<>>

\* OrDefault without the fallback
OrDefaultNone(v, d) == v

\* "c.winfo_width() or 800", "c.winfo_height() or 600"
OrDefault(v, d) == IF v = 0 THEN d ELSE v

redraws(ww, wh, depth, s) ==
    /\ frames' = _frames(OrDefault(ww, FallbackWidth),
                         OrDefault(wh, FallbackHeight), depth, s)
    /\ canvas' = DeleteAll(canvas) \o Drawn(frames')

----------------------------------------------------------------------------
(* State machine *)

\* GameEngine.__init__, for every size the canvas may have at construction
Init ==
    /\ depth_layers = DefaultDepth
    /\ scale = DefaultScale
    /\ \E sz \in Sizes : winfo_width = sz[1] /\ winfo_height = sz[2]
    /\ frames = _frames(OrDefault(winfo_width, FallbackWidth),
                        OrDefault(winfo_height, FallbackHeight),
                        DefaultDepth, DefaultScale)
    /\ canvas = Drawn(frames)
    /\ downs = 0

\* Configure that does not redraw
ConfigureNoRedraw(sz) ==
    /\ winfo_width' = sz[1]
    /\ winfo_height' = sz[2]
    /\ UNCHANGED <<depth_layers, scale, frames, canvas, downs>>

\* the <Configure> binding: the canvas got a new size
Configure(sz) ==
    /\ winfo_width' = sz[1]
    /\ winfo_height' = sz[2]
    /\ redraws(sz[1], sz[2], depth_layers, scale)
    /\ UNCHANGED <<depth_layers, scale, downs>>

\* _bump_depth without the lower clamp
_bump_depth_no_lower(delta) ==
    /\ depth_layers' = Min2(MaxDepth, depth_layers + delta)
    /\ redraws(winfo_width, winfo_height, depth_layers', scale)
    /\ UNCHANGED <<scale, winfo_width, winfo_height>>

_bump_depth(delta) ==
    /\ depth_layers' = Max2(MinDepth, Min2(MaxDepth, depth_layers + delta))
    /\ redraws(winfo_width, winfo_height, depth_layers', scale)
    /\ UNCHANGED <<scale, winfo_width, winfo_height>>

\* _bump_scale without the upper clamp
_bump_scale_no_upper(delta) ==
    /\ scale' = Max2(MinScale, scale + delta)
    /\ redraws(winfo_width, winfo_height, depth_layers, scale')
    /\ UNCHANGED <<depth_layers, winfo_width, winfo_height>>

_bump_scale(delta) ==
    /\ scale' = Max2(MinScale, Min2(MaxScale, scale + delta))
    /\ redraws(winfo_width, winfo_height, depth_layers, scale')
    /\ UNCHANGED <<depth_layers, winfo_width, winfo_height>>

\* key "+"
KeyPlus ==
    /\ _bump_depth(DepthStep)
    /\ downs' = -1

\* key "-"
KeyMinus ==
    /\ _bump_depth(-DepthStep)
    /\ downs' = IF downs >= 0 /\ downs < MaxDowns THEN downs + 1 ELSE -1

\* key "."
KeyDot ==
    /\ _bump_scale(ScaleStep)
    /\ UNCHANGED downs

\* key ","
KeyComma ==
    /\ _bump_scale(-ScaleStep)
    /\ UNCHANGED downs

Next ==
    \/ \E sz \in Sizes : Configure(sz)
    \/ KeyPlus
    \/ KeyMinus
    \/ KeyDot
    \/ KeyComma

Spec == Init /\ [][Next]_vars

----------------------------------------------------------------------------
(* Vocabulary of the properties *)

\* the surface size the last redraw worked with
SurfaceW == IF winfo_width = 0 THEN 800 ELSE winfo_width
SurfaceH == IF winfo_height = 0 THEN 600 ELSE winfo_height

\* the centre of the surface, in frame units
CentreX == (SurfaceW * Unit) \div 2
CentreY == (SurfaceH * Unit) \div 2

RectItems == SelectSeq(canvas, LAMBDA it : it.kind = "rectangle")
LineItems == SelectSeq(canvas, LAMBDA it : it.kind = "line")

\* width and height of a frame, in pixels times Unit
WidthOf(r) == r.x2 - r.x1
HeightOf(r) == r.y2 - r.y1

\* the frame is wider and taller than 50 px
Over50(r) == WidthOf(r) > 50 * Unit /\ HeightOf(r) > 50 * Unit

\* Python indices of the adjacent pairs (i, i+1) of the frame sequence
Pairs == 0..(Len(frames) - 2)

\* the lines on the canvas that belong to the pair (i, i+1)
LinesOfPair(i) ==
    {k \in DOMAIN canvas : canvas[k].kind = "line" /\ canvas[k].band = i}

----------------------------------------------------------------------------
(* C1 *)

\* C1: the layer count is always within [10, 200]; as long as only
\* decreases (and resizes and shrink-factor commands) have happened since
\* construction, k decreases leave it at max(10, 70 - 5k), so four
\* decreases give exactly 50.
C1_LayerCountClamped ==
    /\ depth_layers >= 10
    /\ depth_layers <= 200
    /\ (downs = 4 => depth_layers = 50)
    /\ (downs >= 0 => depth_layers = Max2(10, 70 - 5 * downs))

\* four decreases have been made since construction
C1_Witness == downs = 4 /\ depth_layers = 50

----------------------------------------------------------------------------
(* C2 *)

----------------------------------------------------------------------------
(* C3 *)

\* C3: frame generation returns at least 1 and at most layer_count frames
\* (that the check evaluates _frames in every reachable state is its
\* termination).
C3_FrameCount == Len(frames) >= 1 /\ Len(frames) <= depth_layers

\* the loop ran all its passes without the break, after the layer count
\* was changed
C3_Witness == Len(frames) = depth_layers /\ depth_layers > 10 /\ depth_layers # 70

----------------------------------------------------------------------------
(* C4 *)

FirstFrameOK ==
    frames[1] = [x1 |-> 16 * Unit, y1 |-> 16 * Unit,
                 x2 |-> (SurfaceW - 16) * Unit, y2 |-> (SurfaceH - 16) * Unit]

\* c2 is centre + (c1 - centre) * scale
Contracted(c1, c2, centre) ==
    c2 - centre = MulScale(c1 - centre, scale)

EachFrameContracted ==
    \A i \in 1..(Len(frames) - 1) :
        /\ Contracted(frames[i].x1, frames[i + 1].x1, CentreX)
        /\ Contracted(frames[i].x2, frames[i + 1].x2, CentreX)
        /\ Contracted(frames[i].y1, frames[i + 1].y1, CentreY)
        /\ Contracted(frames[i].y2, frames[i + 1].y2, CentreY)

SameCentre ==
    \A i \in 1..Len(frames) :
        /\ frames[i].x1 + frames[i].x2 = 2 * CentreX
        /\ frames[i].y1 + frames[i].y2 = 2 * CentreY

StrictlyNested ==
    \A i \in 1..(Len(frames) - 1) :
        /\ frames[i + 1].x1 > frames[i].x1
        /\ frames[i + 1].y1 > frames[i].y1
        /\ frames[i + 1].x2 < frames[i].x2
        /\ frames[i + 1].y2 < frames[i].y2

\* C4 as stated: first frame, contraction, common centre, and every frame
\* strictly inside the previous one, on every surface.
C4_Original ==
    FirstFrameOK /\ EachFrameContracted /\ SameCentre /\ StrictlyNested

\* every coordinate of a later frame is strictly nearer to the centre
StrictlyCloser ==
    \A i \in 1..(Len(frames) - 1) :
        /\ Abs(frames[i + 1].x1 - CentreX) < Abs(frames[i].x1 - CentreX)
        /\ Abs(frames[i + 1].x2 - CentreX) < Abs(frames[i].x2 - CentreX)
        /\ Abs(frames[i + 1].y1 - CentreY) < Abs(frames[i].y1 - CentreY)
        /\ Abs(frames[i + 1].y2 - CentreY) < Abs(frames[i].y2 - CentreY)

\* C4 amended: first frame, contraction and common centre on every surface;
\* every coordinate moves strictly toward the centre; the frames are
\* strictly nested when the surface is wider and taller than 2 * margin.
C4_Nested ==
    /\ FirstFrameOK
    /\ EachFrameContracted
    /\ SameCentre
    /\ StrictlyCloser
    /\ (SurfaceW > 2 * 16 /\ SurfaceH > 2 * 16 => StrictlyNested)

\* an ordinary surface with several frames
C4_Witness ==
    SurfaceW > 2 * 16 /\ SurfaceH > 2 * 16 /\ Len(frames) >= 3

----------------------------------------------------------------------------
(* C5 *)

\* C5 as stated: a pair whose near or far frame is at most 50 px wide or
\* high has no connecting line.
C5_Original ==
    \A k \in DOMAIN canvas :
        canvas[k].kind = "line" =>
            /\ Over50(frames[canvas[k].band + 1])
            /\ Over50(frames[canvas[k].band + 2])

\* C5 amended: a pair has no connecting line when its NEAR frame is at
\* most 50 px wide or high, and has its 64 lines otherwise; the far frame
\* is not looked at.
C5_NearFrameDecides ==
    /\ \A k \in DOMAIN canvas :
           canvas[k].kind = "line" =>
               /\ canvas[k].band \in Pairs
               /\ Over50(frames[canvas[k].band + 1])
    /\ \A i \in Pairs :
           Over50(frames[i + 1]) => Cardinality(LinesOfPair(i)) = 4 * 16

\* a drawn pair whose far frame is too small, followed by a skipped pair
C5_Witness ==
    \E i \in Pairs :
        /\ Over50(frames[i + 1])
        /\ ~Over50(frames[i + 2])
        /\ LinesOfPair(i) # {}
        /\ i + 1 \in Pairs
        /\ LinesOfPair(i + 1) = {}

----------------------------------------------------------------------------
(* C6 *)

\* C6 as stated: with at least 2 frames, one outline per frame.
C6_Original ==
    Len(frames) >= 2 =>
        /\ Len(RectItems) = Len(frames)
        /\ \A i \in 1..Len(frames) : RectItems[i].frame = i - 1

\* C6 amended: with at least 2 frames, exactly the frames wider and higher
\* than 50 px get their outline, one each, in frame order.
C6_OutlinesOver50 ==
    Len(frames) >= 2 =>
        /\ \A k \in 1..Len(RectItems) :
               LET i == RectItems[k].frame
               IN  /\ i \in 0..(Len(frames) - 1)
                   /\ Over50(frames[i + 1])
                   /\ RectItems[k].x1 = C(frames[i + 1].x1)
                   /\ RectItems[k].y1 = C(frames[i + 1].y1)
                   /\ RectItems[k].x2 = C(frames[i + 1].x2)
                   /\ RectItems[k].y2 = C(frames[i + 1].y2)
                   /\ (k > 1 => RectItems[k - 1].frame < i)
        /\ Len(RectItems) =
               Cardinality({i \in 1..Len(frames) : Over50(frames[i])})

\* some frames have their outline and some later, smaller ones have none
C6_Witness ==
    /\ Len(RectItems) >= 2
    /\ Len(RectItems) < Len(frames)

----------------------------------------------------------------------------
(* C7 *)

\* pos is the unshifted sample nn of the edge that starts at a and has
\* length e, plus par half segments (a half segment is 1/32 of the edge)
ShiftedBy(pos, a, e, nn, par) ==
    32 * (pos - (C(a) + IntPx(((C(e) \div 16) * nn)))) = par * C(e)

\* C7: every line of band i is shifted by (i mod 2) half segments from the
\* unshifted sample positions, for every segment index, on the near and on
\* the far edge.
C7_PhaseAlternates ==
    \A k \in DOMAIN canvas :
        canvas[k].kind = "line" =>
            LET it == canvas[k]
                r == frames[it.band + 1]
                n == frames[it.band + 2]
                par == it.band % 2
            IN  /\ it.nn \in 0..15
                /\ IF it.side \in {"top", "bottom"}
                   THEN /\ ShiftedBy(it.x1, r.x1, WidthOf(r), it.nn, par)
                        /\ ShiftedBy(it.x2, n.x1, WidthOf(n), it.nn, par)
                   ELSE /\ ShiftedBy(it.y1, r.y1, HeightOf(r), it.nn, par)
                        /\ ShiftedBy(it.y2, n.y1, HeightOf(n), it.nn, par)

\* an even, an odd and again an even band were drawn
C7_Witness ==
    /\ LinesOfPair(0) # {}
    /\ LinesOfPair(1) # {}
    /\ LinesOfPair(2) # {}

----------------------------------------------------------------------------
(* C8 *)

\* C8: after a redraw that got fewer than 2 frames the canvas is empty.
C8_FewFramesDrawNothing == Len(frames) < 2 => canvas = <<>>

\* a redraw with a single frame
C8_Witness == Len(frames) = 1 /\ canvas = <<>>

----------------------------------------------------------------------------
(* C9 *)

\* C9 as stated: a surface of width or height 0 gives exactly one frame
\* and an empty canvas.
C9_Original ==
    (winfo_width = 0 \/ winfo_height = 0) =>
        Len(frames) = 1 /\ canvas = <<>>

\* C9 amended: a reported width of 0 is drawn as 800 and a reported height
\* of 0 as 600; with the other dimension at least 2 * margin + 3 the
\* redraw gets at least 2 frames, and it draws the outlines and bands of
\* the frames over 50 px.
C9_ZeroUsesFallback ==
    /\ winfo_width = 0 =>
           /\ frames[1].x1 = 16 * Unit
           /\ frames[1].x2 = (800 - 16) * Unit
    /\ winfo_height = 0 =>
           /\ frames[1].y1 = 16 * Unit
           /\ frames[1].y2 = (600 - 16) * Unit
    /\ ((winfo_width = 0 \/ winfo_height = 0)
            /\ SurfaceW >= 2 * 16 + 3 /\ SurfaceH >= 2 * 16 + 3) =>
           /\ Len(frames) >= 2
           /\ (Over50(frames[1]) => canvas # <<>>)

\* a surface of width 0 on which the tunnel was drawn
C9_Witness ==
    winfo_width = 0 /\ Len(frames) >= 2 /\ LineItems # <<>>

----------------------------------------------------------------------------
(* C10 *)

\* C10: the canvas holds the items of one redraw for the current size and
\* parameters: the frames start from the current surface and number at most
\* layer_count, there is at most one outline per frame, each at its frame's
\* place, and at most 64 lines per pair, each between two current frames.
C10_OnlyLastRedraw ==
    /\ FirstFrameOK
    /\ Len(frames) <= depth_layers
    /\ Len(RectItems) <= depth_layers
    /\ Len(LineItems) <= depth_layers * 4 * 16
    /\ \A k \in 1..Len(RectItems) :
           LET i == RectItems[k].frame
           IN  /\ i \in 0..(Len(frames) - 1)
               /\ RectItems[k].x1 = C(frames[i + 1].x1)
               /\ RectItems[k].x2 = C(frames[i + 1].x2)
               /\ (k > 1 => RectItems[k - 1].frame < i)
    /\ \A k \in 1..Len(LineItems) :
           /\ LineItems[k].band \in Pairs
           /\ (k > 4 * 16 => LineItems[k - 4 * 16].band < LineItems[k].band)

\* a drawing that replaced an earlier drawing after a tuning command
C10_Witness ==
    /\ depth_layers # 70
    /\ scale # 92
    /\ Len(RectItems) >= 2
    /\ Len(LineItems) >= 2 * 4 * 16


====
